---- MODULE Spec2Model ----
(***************************************************************************)
(* Model of the Email Output plugin (src/email/email_output.go):           *)
(* EmailOutput.Init / Prepare / Run / sendMail, the package-level          *)
(* sendMail / testMail, and the process-wide MX cache mxAddrs guarded by   *)
(* mxAddrsLock.  Strings are sequences of tokens, so that strings.Index,   *)
(* slicing and concatenation are computed as the code computes them.       *)
(***************************************************************************)
EXTENDS Integers, Sequences, FiniteSets, TLC

(* ---------------------------- bounds ----------------------------------- *)
\* number of records the inbound channel of one engine delivers at most
MaxRecords == 2
\* the same, for each of two concurrent engines
ConcMaxRecords == 1

\* longest destination set the grouping is tried on
MaxTo == 3

(* ------------------------- program constants --------------------------- *)
\* payload excerpt cap of the subject line
ExcerptMax == 100
\* length of the literal "Subject: " that starts every body
SubjectLen == 9

(* ------------------------------ inputs --------------------------------- *)
Engines == {"e1", "e2"}

AddrAX == <<"a", "@", "x.com">>
AddrBY == <<"b", "@", "y.com">>
AddrCX == <<"c", "@", "x.com">>
AddrAY == <<"a", "@", "y.com">>
Addresses == {AddrAX, AddrBY, AddrCX, AddrAY}

SeqsUpTo(S, n) == UNION {[1..k -> S] : k \in 1..n}

\* per-domain configurations with every destination set of up to MaxTo addresses
GroupConfigs ==
  {[Address |-> <<>>, Username |-> "", From |-> "from", To |-> t] :
     t \in SeqsUpTo(Addresses, MaxTo)}

\* configurations (EmailOutputConfig) an engine may be initialised with
Configs ==
  { [Address |-> <<>>, Username |-> "", From |-> "from", To |-> <<AddrAX, AddrBY, AddrCX>>],
    [Address |-> <<>>, Username |-> "user", From |-> "from", To |-> <<AddrBY>>],
    [Address |-> <<"relay">>, Username |-> "user", From |-> "from", To |-> <<AddrAX, AddrBY>>],
    [Address |-> <<"relay", ":", "587">>, Username |-> "", From |-> "from", To |-> <<AddrAX>>] }

\* payload lengths of inbound records
Payloads == {0, 150}
\* the same, for two concurrent engines
ConcPayloads == {150}

Nil == [kind |-> "nil"]
DNSError == [kind |-> "dns"]

\* outcomes of net.LookupMX: an error, or an ordered list (possibly empty)
MXAnswers ==
  { [mxs |-> <<>>, err |-> DNSError],
    [mxs |-> <<>>, err |-> Nil],
    [mxs |-> <<"mx2">>, err |-> Nil],
    [mxs |-> <<"mx1", "mx2">>, err |-> Nil] }

(* ------------------------- string helpers ------------------------------ *)
\* strings.Index: 0-based position of the first occurrence, -1 if none
Index(s, tok) ==
  IF \E i \in 1..Len(s) : s[i] = tok
  THEN (CHOOSE i \in 1..Len(s) : s[i] = tok /\ \A j \in 1..(i-1) : s[j] # tok) - 1
  ELSE -1

\* s[:i]
SliceTo(s, i) == SubSeq(s, 1, i)
\* s[i:]
SliceFrom(s, i) == SubSeq(s, i + 1, Len(s))

\* (mutant) the submission port instead of the SMTP port
Port587 == <<":", "587">>

Port25 == <<":", "25">>

NoAuth == [kind |-> "noauth"]
\* smtp.PlainAuth("", username, password, host)
PlainAuth(username, h) == [kind |-> "plain", user |-> username, host |-> h]

(* ----------------------- transport session ----------------------------- *)
\* []byte(nil), the absent body
NilMsg == [nil |-> TRUE, len |-> 0]
\* bytes.Buffer.Bytes() of a buffer holding n bytes
Bytes(n) == [nil |-> (n = 0), len |-> n]

\* the body Run builds for a payload of p bytes: the subject line with the
\* payload capped at 100, a blank line, and the full payload
Body(p) ==
  LET excerpt == IF p > ExcerptMax THEN ExcerptMax ELSE p
  IN  Bytes(SubjectLen + excerpt + 4 + p)

Step(op, arg) == [op |-> op, arg |-> arg]
NoFail == Step("none", <<>>)

\* (mutant) authentication is tried whether or not the server offers it
SessionPlanAuthUnasked(a, to, msg, srv) ==
  <<Step("dial", <<>>), Step("greeting", <<>>), Step("hello", <<>>)>>
  \o (IF srv.starttls THEN <<Step("starttls", <<>>)>> ELSE <<>>)
  \o (IF a # NoAuth THEN <<Step("auth", <<>>)>> ELSE <<>>)
  \o <<Step("mail", <<>>)>>
  \o [i \in 1..Len(to) |-> Step("rcpt", to[i])]
  \o (IF ~msg.nil
      THEN <<Step("data", <<>>), Step("write", <<>>), Step("close", <<>>)>>
      ELSE <<>>)
  \o <<Step("quit", <<>>)>>

\* the steps of one session that no step fails, in program order
SessionPlan(a, to, msg, srv) ==
  <<Step("dial", <<>>), Step("greeting", <<>>), Step("hello", <<>>)>>
  \o (IF srv.starttls THEN <<Step("starttls", <<>>)>> ELSE <<>>)
  \o (IF a # NoAuth /\ srv.auth THEN <<Step("auth", <<>>)>> ELSE <<>>)
  \o <<Step("mail", <<>>)>>
  \o [i \in 1..Len(to) |-> Step("rcpt", to[i])]
  \o (IF ~msg.nil
      THEN <<Step("data", <<>>), Step("write", <<>>), Step("close", <<>>)>>
      ELSE <<>>)
  \o <<Step("quit", <<>>)>>

\* whether the connection is still open when the session returns: it was
\* opened by a successful dial, and nothing but a successful Quit closes it
ConnLeft(steps, failed) ==
  LET last == steps[Len(steps)]
  IN  /\ ~(last.op = "dial" /\ failed)
      /\ ~(last.op = "quit" /\ ~failed)

\* (mutant) the error of a rejected recipient is dropped
sendMailRcptUnchecked(addr, a, from, to, msg, srv) ==
  LET plan == SessionPlan(a, to, msg, srv)
      bad  == {i \in 1..Len(plan) : plan[i] = srv.fail /\ plan[i].op # "rcpt"}
      stop == IF bad = {} THEN Len(plan)
              ELSE CHOOSE i \in bad : \A j \in bad : i <= j
  IN  [addr  |-> addr, auth |-> a, to |-> to, msg |-> msg, srv |-> srv,
       steps |-> SubSeq(plan, 1, stop),
       connOpen |-> ConnLeft(SubSeq(plan, 1, stop), bad # {}),
       err   |-> IF bad = {} THEN Nil
                 ELSE [kind |-> "smtp", op |-> plan[stop].op, arg |-> plan[stop].arg]]

\* package-level sendMail: every step returns at once when it fails
sendMail(addr, a, from, to, msg, srv) ==
  LET plan == SessionPlan(a, to, msg, srv)
      bad  == {i \in 1..Len(plan) : plan[i] = srv.fail}
      stop == IF bad = {} THEN Len(plan)
              ELSE CHOOSE i \in bad : \A j \in bad : i <= j
  IN  [addr  |-> addr, auth |-> a, to |-> to, msg |-> msg, srv |-> srv,
       steps |-> SubSeq(plan, 1, stop),
       connOpen |-> ConnLeft(SubSeq(plan, 1, stop), bad # {}),
       err   |-> IF bad = {} THEN Nil
                 ELSE [kind |-> "smtp", op |-> plan[stop].op, arg |-> plan[stop].arg]]

\* (mutant) the probe hands over an empty message instead of none
testMailEmptyMessage(addr, a, from, to, srv) ==
  sendMail(addr, a, from, to, [nil |-> FALSE, len |-> 0], srv)

\* testMail: a session without a body
testMail(addr, a, from, to, srv) == sendMail(addr, a, from, to, NilMsg, srv)

\* what the server of one session does: the capabilities it advertises and
\* the step it fails (if any)
AllOps == {"dial", "greeting", "hello", "starttls", "auth", "mail", "rcpt",
           "data", "write", "close", "quit"}

FailSteps(to, ops) ==
  {NoFail}
  \cup {Step(op, <<>>) : op \in ops \ {"rcpt"}}
  \cup {Step("rcpt", to[i]) : i \in IF "rcpt" \in ops THEN 1..Len(to) ELSE {}}

Servers(to, ops) ==
  [starttls : BOOLEAN, auth : BOOLEAN, fail : FailSteps(to, ops)]

\* the failures two concurrent engines meet
ConcOps == {"dial"}

NoSession == [kind |-> "none"]

(* --------------------------- error values ------------------------------ *)
\* "error looking up MX record for %s: %s"
LookupErr(h, e) == [kind |-> "lookup", host |-> h, err |-> e]
\* (mutant) the candidate list is left out of the message
TestErrNoList(from, to, mx, e) == [kind |-> "test", from |-> from, tos |-> to, mxs |-> <<>>, err |-> e]
\* "error test sending mail from %s to %s with %s: %s"
TestErr(from, to, mx, e) == [kind |-> "test", from |-> from, tos |-> to, mxs |-> mx, err |-> e]
\* "error sending mail from %s to %s with %s: %s"
SendErr(from, to, mx, e) == [kind |-> "send", from |-> from, tos |-> to, mxs |-> mx, err |-> e]
\* "error sending email: %s"
RunErr(e) == [kind |-> "run", err |-> e]

(* ------------------------------ maps ----------------------------------- *)
EmptyMap == [k \in {} |-> <<>>]
MapPut(m, k, v) == [x \in (DOMAIN m) \cup {k} |-> IF x = k THEN v ELSE m[x]]
\* m[k] of a Go map: the zero value (nil slice) when k is absent
MapGet(m, k) == IF k \in DOMAIN m THEN m[k] ELSE <<>>

\* (mutant) the group is replaced instead of appended to
RECURSIVE GroupByHostOverwrite(_, _, _)
GroupByHostOverwrite(to, n, m) ==
  IF n > Len(to) THEN m
  ELSE LET i == Index(to[n], "@")
           h == SliceFrom(to[n], i + 1)
       IN  GroupByHostOverwrite(to, n + 1, MapPut(m, h, <<to[n]>>))

\* Prepare's grouping loop: byHost[host] = append(byHost[host], tos)
RECURSIVE GroupByHost(_, _, _)
GroupByHost(to, n, m) ==
  IF n > Len(to) THEN m
  ELSE LET i == Index(to[n], "@")
           h == SliceFrom(to[n], i + 1)
       IN  GroupByHost(to, n + 1, MapPut(m, h, Append(MapGet(m, h), to[n])))

(* ------------------------ decisions of the code ------------------------ *)
\* (mutant) the cache is never consulted
CacheNeverHit(cache, h) == FALSE

\* Prepare: mxs, ok = mxAddrs[host]
CacheHit(cache, h) == h \in DOMAIN cache

\* (mutant) the answer is stored before the error is looked at
CacheStoreAlways(cache, h, ans) == MapPut(cache, h, ans.mxs)

\* Prepare: the cache after net.LookupMX answered ans for h
CacheStore(cache, h, ans) ==
  IF ans.err # Nil THEN cache ELSE MapPut(cache, h, ans.mxs)

\* (mutant) Lock() returns without waiting for the holder
CanLockAlways(lock) == TRUE

\* sync.Mutex: Lock() returns once nobody holds the lock
CanLock(lock) == lock = "free"

\* (mutant) the loop goes on after a success
NeverBreak(e) == FALSE

\* the candidate loops: if err == nil { break }
Break(e) == e = Nil

\* (mutant) a group without a successful probe is let through
GroupNeverFailed(okv) == FALSE

\* Prepare: if !ok { return error }
GroupFailed(okv) == ~okv

\* (mutant) a group whose candidates all failed is passed over
SendNeverFailed(e) == FALSE

\* EmailOutput.sendMail: if err != nil { return error }
SendFailed(e) == e # Nil

\* (mutant) Run goes on to the next record after a failed delivery
RunNeverFails(e) == FALSE

\* Run: if err != nil { return error }
RunFails(e) == e # Nil

(* ------------------------------ state ---------------------------------- *)
VARIABLES
  pc,           \* where each engine is
  o,            \* the EmailOutput struct of each engine
  loc,          \* locals of Prepare / EmailOutput.sendMail of each engine
  todo,         \* keys of byHost the running range loop has not visited yet
  body,         \* Run's current message body
  taken,        \* number of records each engine took from its InChan
  ret,          \* what Init or Run returned
  mxAddrs,      \* the process-wide MX cache
  mxAddrsLock,  \* holder of the cache lock, or "free"
  session,      \* the transport session run by the last step, if it ran one
  resolved,     \* first successful LookupMX answer of each domain
  netLookups,   \* number of successful LookupMX calls per domain
  probed,       \* groups of each engine whose startup probe succeeded
  tried,        \* errors of the candidates tried for the current group
  config,       \* the configuration each engine's Init was called with
  delivered     \* groups a session succeeded for, for the record in hand

vars == <<pc, o, loc, todo, body, taken, ret, mxAddrs, mxAddrsLock, session,
          resolved, netLookups, probed, tried, config, delivered>>

NoConfig == [Address |-> <<>>, Username |-> "", From |-> "", To |-> <<>>]
NoHost == <<"?">>
LocInit == [host |-> NoHost, tos |-> <<>>, mxs |-> <<>>, idx |-> 1, ok |-> FALSE, err |-> Nil]
OInit == [From |-> "", To |-> <<>>, hostport |-> <<>>, auth |-> NoAuth, byHost |-> EmptyMap]

Init ==
  /\ pc = [e \in Engines |-> "Uninit"]
  /\ o = [e \in Engines |-> OInit]
  /\ loc = [e \in Engines |-> LocInit]
  /\ todo = [e \in Engines |-> {}]
  /\ body = [e \in Engines |-> NilMsg]
  /\ taken = [e \in Engines |-> 0]
  /\ ret = [e \in Engines |-> Nil]
  /\ mxAddrs = EmptyMap
  /\ mxAddrsLock = "free"
  /\ session = NoSession
  /\ resolved = EmptyMap
  /\ netLookups = EmptyMap
  /\ probed = [e \in Engines |-> {}]
  /\ tried = [e \in Engines |-> <<>>]
  /\ config = [e \in Engines |-> NoConfig]
  /\ delivered = [e \in Engines |-> {}]

\* the session record a step leaves behind
Ran(e, phase, cand, s) ==
  [kind |-> "session", eng |-> e, phase |-> phase, cand |-> cand,
   addr |-> s.addr, auth |-> s.auth, to |-> s.to, msg |-> s.msg,
   srv |-> s.srv, steps |-> s.steps, connOpen |-> s.connOpen, err |-> s.err]

\* pc after the candidate loop has advanced to index i
LoopPc(i, mx, tryPc, afterPc) == IF i <= Len(mx) THEN tryPc ELSE afterPc

(* ------------------------- Init and Prepare ---------------------------- *)
\* Init: read the configuration, then enter Prepare (grouping included)
EngineInit(e, conf) ==
  /\ pc[e] = "Uninit"
  /\ LET i    == Index(conf.Address, ":")
         h    == IF i >= 0 THEN SliceTo(conf.Address, i) ELSE conf.Address
         hp   == IF conf.Address = <<>> THEN <<>>
                 ELSE IF i >= 0 THEN conf.Address ELSE h \o Port25
         a    == IF conf.Address # <<>> /\ conf.Username # ""
                 THEN PlainAuth(conf.Username, h) ELSE NoAuth
         bh   == IF hp = <<>> THEN GroupByHost(conf.To, 1, EmptyMap) ELSE EmptyMap
     IN  /\ o' = [o EXCEPT ![e] = [From |-> conf.From, To |-> conf.To,
                                   hostport |-> hp, auth |-> a, byHost |-> bh]]
         /\ todo' = [todo EXCEPT ![e] = DOMAIN bh]
         /\ pc' = [pc EXCEPT ![e] = IF hp = <<>> THEN "PrepRange" ELSE "PrepFixed"]
  /\ config' = [config EXCEPT ![e] = conf]
  /\ session' = NoSession
  /\ UNCHANGED <<loc, body, taken, ret, mxAddrs, mxAddrsLock, resolved,
                 netLookups, probed, tried, delivered>>

\* Prepare: for host, tos = range o.byHost (or return nil after the last group)
PrepRange(e) ==
  /\ pc[e] = "PrepRange"
  /\ IF todo[e] = {}
     THEN /\ pc' = [pc EXCEPT ![e] = "Run"]
          /\ loc' = [loc EXCEPT ![e] = LocInit]
          /\ todo' = todo
     ELSE \E h \in todo[e] :
            /\ loc' = [loc EXCEPT ![e].host = h, ![e].tos = o[e].byHost[h]]
            /\ todo' = [todo EXCEPT ![e] = @ \ {h}]
            /\ pc' = [pc EXCEPT ![e] = "PrepLock"]
  /\ tried' = [tried EXCEPT ![e] = <<>>]
  /\ session' = NoSession
  /\ UNCHANGED <<o, body, taken, ret, mxAddrs, mxAddrsLock, resolved,
                 netLookups, probed, config, delivered>>

\* Prepare: mxAddrsLock.Lock()
PrepLock(e) ==
  /\ pc[e] = "PrepLock"
  /\ CanLock(mxAddrsLock)
  /\ mxAddrsLock' = e
  /\ pc' = [pc EXCEPT ![e] = "PrepCheck"]
  /\ session' = NoSession
  /\ UNCHANGED <<o, loc, todo, body, taken, ret, mxAddrs, resolved,
                 netLookups, probed, tried, config, delivered>>

\* Prepare: if mxs, ok = mxAddrs[host]; !ok
PrepCheck(e) ==
  /\ pc[e] = "PrepCheck"
  /\ LET hit == CacheHit(mxAddrs, loc[e].host)
     IN  /\ loc' = [loc EXCEPT ![e].mxs = MapGet(mxAddrs, loc[e].host), ![e].ok = hit]
         /\ pc' = [pc EXCEPT ![e] = IF hit THEN "PrepUnlock" ELSE "PrepLookup"]
  /\ session' = NoSession
  /\ UNCHANGED <<o, todo, body, taken, ret, mxAddrs, mxAddrsLock, resolved,
                 netLookups, probed, tried, config, delivered>>

\* Prepare: net.LookupMX(host); on an error return it (the lock stays as it
\* is), otherwise mxAddrs[host] = mxs
PrepLookup(e, ans) ==
  /\ pc[e] = "PrepLookup"
  /\ mxAddrs' = CacheStore(mxAddrs, loc[e].host, ans)
  /\ IF ans.err # Nil
     THEN /\ ret' = [ret EXCEPT ![e] = LookupErr(loc[e].host, ans.err)]
          /\ pc' = [pc EXCEPT ![e] = "Stopped"]
          /\ loc' = [loc EXCEPT ![e] = LocInit]
          /\ UNCHANGED <<resolved, netLookups>>
     ELSE /\ loc' = [loc EXCEPT ![e].mxs = ans.mxs, ![e].err = Nil]
          /\ pc' = [pc EXCEPT ![e] = "PrepUnlock"]
          /\ ret' = ret
          /\ resolved' = IF loc[e].host \in DOMAIN resolved THEN resolved
                         ELSE MapPut(resolved, loc[e].host, ans.mxs)
          /\ netLookups' = MapPut(netLookups, loc[e].host,
                                  IF loc[e].host \in DOMAIN netLookups
                                  THEN 2 ELSE 1)
  /\ session' = NoSession
  /\ UNCHANGED <<o, todo, body, taken, mxAddrsLock, probed, tried, config, delivered>>

\* Prepare: mxAddrsLock.Unlock(); ok = false
PrepUnlock(e) ==
  /\ pc[e] = "PrepUnlock"
  /\ mxAddrsLock' = "free"
  /\ loc' = [loc EXCEPT ![e].ok = FALSE, ![e].idx = 1]
  /\ pc' = [pc EXCEPT ![e] = LoopPc(1, loc[e].mxs, "PrepProbe", "PrepAfter")]
  /\ session' = NoSession
  /\ UNCHANGED <<o, todo, body, taken, ret, mxAddrs, resolved, netLookups,
                 probed, tried, config, delivered>>

\* Prepare: one turn of the candidate loop, testMail(mx.Host+":25", nil, ...)
PrepProbe(e, srv) ==
  /\ pc[e] = "PrepProbe"
  /\ LET i == loc[e].idx
         s == testMail(<<loc[e].mxs[i]>> \o Port25, NoAuth, o[e].From, loc[e].tos, srv)
     IN  /\ session' = Ran(e, "probe", i, s)
         /\ tried' = [tried EXCEPT ![e] = Append(@, s.err)]
         /\ IF Break(s.err)
            THEN /\ loc' = [loc EXCEPT ![e].err = s.err, ![e].ok = TRUE]
                 /\ pc' = [pc EXCEPT ![e] = "PrepAfter"]
                 /\ probed' = [probed EXCEPT ![e] = @ \cup {loc[e].host}]
            ELSE /\ loc' = [loc EXCEPT ![e].err = s.err, ![e].idx = i + 1]
                 /\ pc' = [pc EXCEPT ![e] =
                             LoopPc(i + 1, loc[e].mxs, "PrepProbe", "PrepAfter")]
                 /\ probed' = probed
  /\ UNCHANGED <<o, todo, body, taken, ret, mxAddrs, mxAddrsLock, resolved,
                 netLookups, config, delivered>>

\* Prepare: if !ok { return error }, else on to the next group
PrepAfter(e) ==
  /\ pc[e] = "PrepAfter"
  /\ IF GroupFailed(loc[e].ok)
     THEN /\ ret' = [ret EXCEPT ![e] =
                       TestErr(o[e].From, loc[e].tos, loc[e].mxs, loc[e].err)]
          /\ pc' = [pc EXCEPT ![e] = "Stopped"]
          /\ loc' = [loc EXCEPT ![e] = LocInit]
     ELSE /\ pc' = [pc EXCEPT ![e] = "PrepRange"]
          /\ UNCHANGED <<ret, loc>>
  /\ tried' = [tried EXCEPT ![e] = <<>>]
  /\ session' = NoSession
  /\ UNCHANGED <<o, todo, body, taken, mxAddrs, mxAddrsLock, resolved,
                 netLookups, probed, config, delivered>>

\* Prepare with a fixed relay: testMail(o.hostport, o.auth, ...)
PrepFixed(e, srv) ==
  /\ pc[e] = "PrepFixed"
  /\ LET s == testMail(o[e].hostport, o[e].auth, o[e].From, o[e].To, srv)
     IN  /\ session' = Ran(e, "probe", 0, s)
         /\ IF s.err = Nil
            THEN /\ o' = [o EXCEPT ![e].byHost = MapPut(EmptyMap, <<>>, o[e].To)]
                 /\ pc' = [pc EXCEPT ![e] = "Run"]
                 /\ probed' = [probed EXCEPT ![e] = {<<>>}]
                 /\ ret' = ret
            ELSE /\ ret' = [ret EXCEPT ![e] = s.err]
                 /\ pc' = [pc EXCEPT ![e] = "Stopped"]
                 /\ UNCHANGED <<o, probed>>
  /\ UNCHANGED <<loc, todo, body, taken, mxAddrs, mxAddrsLock, resolved,
                 netLookups, tried, config, delivered>>

(* ----------------------- Run and EmailOutput.sendMail ------------------ *)
\* Run: take the next record from InChan, build the body, call o.sendMail
RunRecv(e, p, max) ==
  /\ pc[e] = "Run"
  /\ taken[e] < max
  /\ taken' = [taken EXCEPT ![e] = @ + 1]
  /\ body' = [body EXCEPT ![e] = Body(p)]
  /\ delivered' = [delivered EXCEPT ![e] = {}]
  /\ todo' = [todo EXCEPT ![e] = DOMAIN o[e].byHost]
  /\ pc' = [pc EXCEPT ![e] = IF o[e].hostport = <<>> THEN "SendRange" ELSE "SendFixed"]
  /\ session' = NoSession
  /\ UNCHANGED <<o, loc, ret, mxAddrs, mxAddrsLock, resolved, netLookups,
                 probed, tried, config>>

\* Run: InChan was closed, the range loop ends, Run returns nil
RunClosed(e) ==
  /\ pc[e] = "Run"
  /\ pc' = [pc EXCEPT ![e] = "Stopped"]
  /\ session' = NoSession
  /\ UNCHANGED <<o, loc, todo, body, taken, ret, mxAddrs, mxAddrsLock,
                 resolved, netLookups, probed, tried, config, delivered, config, delivered>>

\* o.sendMail: for host, tos = range o.byHost (or return nil after the last
\* group, and Run resets the body and waits for the next record)
SendRange(e) ==
  /\ pc[e] = "SendRange"
  /\ IF todo[e] = {}
     THEN /\ pc' = [pc EXCEPT ![e] = "Run"]
          /\ loc' = [loc EXCEPT ![e] = LocInit]
          /\ body' = [body EXCEPT ![e] = NilMsg]
          /\ delivered' = [delivered EXCEPT ![e] = {}]
          /\ todo' = todo
     ELSE \E h \in todo[e] :
            /\ loc' = [loc EXCEPT ![e].host = h, ![e].tos = o[e].byHost[h]]
            /\ todo' = [todo EXCEPT ![e] = @ \ {h}]
            /\ pc' = [pc EXCEPT ![e] = "SendLock"]
            /\ UNCHANGED <<body, delivered>>
  /\ tried' = [tried EXCEPT ![e] = <<>>]
  /\ session' = NoSession
  /\ UNCHANGED <<o, taken, ret, mxAddrs, mxAddrsLock, resolved, netLookups,
                 probed, config>>

\* o.sendMail: mxAddrsLock.Lock()
SendLock(e) ==
  /\ pc[e] = "SendLock"
  /\ CanLock(mxAddrsLock)
  /\ mxAddrsLock' = e
  /\ pc' = [pc EXCEPT ![e] = "SendRead"]
  /\ session' = NoSession
  /\ UNCHANGED <<o, loc, todo, body, taken, ret, mxAddrs, resolved,
                 netLookups, probed, tried, config, delivered>>

\* o.sendMail: mxs = mxAddrs[host]; mxAddrsLock.Unlock(); err = nil
SendRead(e) ==
  /\ pc[e] = "SendRead"
  /\ LET mx == MapGet(mxAddrs, loc[e].host)
     IN  /\ loc' = [loc EXCEPT ![e].mxs = mx, ![e].err = Nil, ![e].idx = 1]
         /\ pc' = [pc EXCEPT ![e] = LoopPc(1, mx, "SendTry", "SendAfter")]
  /\ mxAddrsLock' = "free"
  /\ session' = NoSession
  /\ UNCHANGED <<o, todo, body, taken, ret, mxAddrs, resolved, netLookups,
                 probed, tried, config, delivered>>

\* o.sendMail: one turn of the candidate loop, sendMail(mx.Host+":25", nil, ...)
SendTry(e, srv) ==
  /\ pc[e] = "SendTry"
  /\ LET i == loc[e].idx
         s == sendMail(<<loc[e].mxs[i]>> \o Port25, NoAuth, o[e].From, loc[e].tos,
                       body[e], srv)
     IN  /\ session' = Ran(e, "send", i, s)
         /\ tried' = [tried EXCEPT ![e] = Append(@, s.err)]
         /\ delivered' = IF s.err = Nil
                         THEN [delivered EXCEPT ![e] = @ \cup {loc[e].host}]
                         ELSE delivered
         /\ IF Break(s.err)
            THEN /\ loc' = [loc EXCEPT ![e].err = s.err]
                 /\ pc' = [pc EXCEPT ![e] = "SendAfter"]
            ELSE /\ loc' = [loc EXCEPT ![e].err = s.err, ![e].idx = i + 1]
                 /\ pc' = [pc EXCEPT ![e] =
                             LoopPc(i + 1, loc[e].mxs, "SendTry", "SendAfter")]
  /\ UNCHANGED <<o, todo, body, taken, ret, mxAddrs, mxAddrsLock, resolved,
                 netLookups, probed, config>>

\* o.sendMail: if err != nil { return error }, else on to the next group;
\* Run returns the error it gets
SendAfter(e) ==
  /\ pc[e] = "SendAfter"
  /\ LET r == SendErr(o[e].From, loc[e].tos, loc[e].mxs, loc[e].err)
     IN  IF SendFailed(loc[e].err)
         THEN IF RunFails(r)
              THEN /\ ret' = [ret EXCEPT ![e] = RunErr(r)]
                   /\ pc' = [pc EXCEPT ![e] = "Stopped"]
                   /\ loc' = [loc EXCEPT ![e] = LocInit]
                   /\ body' = [body EXCEPT ![e] = NilMsg]
                   /\ delivered' = [delivered EXCEPT ![e] = {}]
              ELSE /\ pc' = [pc EXCEPT ![e] = "Run"]
                   /\ loc' = [loc EXCEPT ![e] = LocInit]
                   /\ body' = [body EXCEPT ![e] = NilMsg]
                   /\ delivered' = [delivered EXCEPT ![e] = {}]
                   /\ ret' = ret
         ELSE /\ pc' = [pc EXCEPT ![e] = "SendRange"]
              /\ UNCHANGED <<ret, loc, body, delivered>>
  /\ tried' = [tried EXCEPT ![e] = <<>>]
  /\ session' = NoSession
  /\ UNCHANGED <<o, todo, taken, mxAddrs, mxAddrsLock, resolved, netLookups,
                 probed, config>>

\* o.sendMail with a fixed relay: sendMail(o.hostport, o.auth, ...); Run
\* returns the error it gets
SendFixed(e, srv) ==
  /\ pc[e] = "SendFixed"
  /\ LET s == sendMail(o[e].hostport, o[e].auth, o[e].From, o[e].To, body[e], srv)
     IN  /\ session' = Ran(e, "send", 0, s)
         /\ IF RunFails(s.err)
            THEN /\ ret' = [ret EXCEPT ![e] = RunErr(s.err)]
                 /\ pc' = [pc EXCEPT ![e] = "Stopped"]
            ELSE /\ pc' = [pc EXCEPT ![e] = "Run"]
                 /\ ret' = ret
  /\ body' = [body EXCEPT ![e] = NilMsg]
  /\ UNCHANGED <<o, loc, todo, taken, mxAddrs, mxAddrsLock, resolved,
                 netLookups, probed, tried, config, delivered>>

\* the steps of the engines in E, configured from confs, against servers
\* that fail one of ops, each engine's InChan delivering at most max records
\* with payloads of the given lengths
Steps(E, confs, ops, payloads, max) ==
  \E e \in E :
    \/ \E conf \in confs : EngineInit(e, conf)
    \/ PrepRange(e)
    \/ PrepLock(e)
    \/ PrepCheck(e)
    \/ \E ans \in MXAnswers : PrepLookup(e, ans)
    \/ PrepUnlock(e)
    \/ \E srv \in Servers(loc[e].tos, ops) : PrepProbe(e, srv)
    \/ PrepAfter(e)
    \/ \E srv \in Servers(o[e].To, ops) : PrepFixed(e, srv)
    \/ \E p \in payloads : RunRecv(e, p, max)
    \/ RunClosed(e)
    \/ SendRange(e)
    \/ SendLock(e)
    \/ SendRead(e)
    \/ \E srv \in Servers(loc[e].tos, ops) : SendTry(e, srv)
    \/ SendAfter(e)
    \/ \E srv \in Servers(o[e].To, ops) : SendFixed(e, srv)

\* one engine, every configuration, every failing step
Next == Steps({"e1"}, Configs, AllOps, Payloads, MaxRecords)

Spec == Init /\ [][Next]_vars

\* two engines sharing the MX cache
ConcNext == Steps(Engines, Configs, ConcOps, ConcPayloads, ConcMaxRecords)

ConcSpec == Init /\ [][ConcNext]_vars

\* Init and the first turn of Prepare's range loop, on every destination set
GroupNext ==
  \/ \E conf \in GroupConfigs : EngineInit("e1", conf)
  \/ PrepRange("e1")

GroupSpec == Init /\ [][GroupNext]_vars

(* ====================== properties of the claims ======================= *)
PrepPcs == {"PrepRange", "PrepLock", "PrepCheck", "PrepLookup", "PrepUnlock",
            "PrepProbe", "PrepAfter", "PrepFixed"}
RunPcs == {"Run", "SendRange", "SendLock", "SendRead", "SendTry", "SendAfter",
           "SendFixed"}
\* between Lock() and the Unlock() that follows it
CriticalPcs == {"PrepCheck", "PrepLookup", "PrepUnlock", "SendRead"}
\* the engine holds in loc.mxs the candidate list it read for loc.host
HasListPcs == {"PrepUnlock", "PrepProbe", "PrepAfter", "SendTry", "SendAfter"}

\* the lock is free or its holder is on its way to Unlock()
LockWillBeReleased == mxAddrsLock = "free" \/ pc[mxAddrsLock] \in CriticalPcs

\* the domain whose resolution made Init return an error
FailedDomain(e) ==
  IF pc[e] = "Stopped" /\ ret[e].kind = "lookup" THEN ret[e].host ELSE NoHost

ErrOp(e) == IF e.kind = "smtp" THEN e.op ELSE "none"

\* C1: two instances resolving two different domains concurrently: neither
\* waits for mxAddrsLock while the other, done with its own domain whatever
\* the lookup answered, keeps the lock for good; and each holds the list
\* cached for its own domain.
C1_ConcurrentResolveTwoDomains ==
  \A e \in Engines, f \in Engines :
    /\ (e # f /\ pc[e] = "PrepLock" /\ mxAddrsLock = f
          /\ FailedDomain(f) # loc[e].host /\ loc[f].host # loc[e].host)
       => pc[f] \in CriticalPcs
    /\ (e # f /\ pc[e] \in HasListPcs /\ pc[f] \in HasListPcs
          /\ loc[e].host # loc[f].host)
       => /\ loc[e].mxs = MapGet(mxAddrs, loc[e].host)
          /\ loc[f].mxs = MapGet(mxAddrs, loc[f].host)

\* C2: a step in which LookupMX fails for D leaves the cache as it was, with
\* no entry for D.
C2_FailedLookupLeavesCache ==
  [][\A e \in Engines :
       (pc[e] = "PrepLookup" /\ pc'[e] = "Stopped")
       => (mxAddrs' = mxAddrs /\ loc[e].host \notin DOMAIN mxAddrs')]_vars

\* a lookup has failed while the cache holds another domain's entry
C2_Witness ==
  \E e \in Engines :
    /\ pc[e] = "Stopped" /\ ret[e].kind = "lookup"
    /\ DOMAIN mxAddrs # {} /\ ret[e].host \notin DOMAIN mxAddrs

\* C3: after the resolution of D failed in one Prepare, a later Prepare that
\* resolves D is not kept waiting for the lock for good.
C3_RetryAfterFailedLookup ==
  \A e \in Engines, f \in Engines :
    (e # f /\ pc[e] = "PrepLock" /\ FailedDomain(f) = loc[e].host)
    => LockWillBeReleased

\* C4: once D was looked up successfully, the cache keeps that very list for
\* D, every engine that read D's list holds that list, and no second lookup
\* of D succeeded.
C4_CacheHitDeterminism ==
  \A d \in DOMAIN resolved :
    /\ d \in DOMAIN mxAddrs /\ mxAddrs[d] = resolved[d]
    /\ netLookups[d] <= 1
    /\ \A e \in Engines :
         (pc[e] \in HasListPcs /\ loc[e].host = d) => loc[e].mxs = resolved[d]

\* one engine probes D's candidates while another delivers to them
C4_Witness ==
  \E e \in Engines, f \in Engines :
    /\ e # f /\ pc[e] = "SendTry" /\ pc[f] = "PrepProbe"
    /\ loc[e].host = loc[f].host /\ loc[e].host \in DOMAIN resolved
    /\ Len(loc[e].mxs) = 2

\* the step ran a session of engine e with a candidate host of a group
Attempted(e) ==
  session'.kind = "session" /\ session'.eng = e /\ session'.cand > 0

\* C5: per-domain mode: the k-th session of a group goes to the k-th cached
\* candidate, is only started when every earlier candidate failed, and a
\* successful session ends the loop with the group reported as succeeded.
C5_OrderedFailover ==
  [][\A e \in Engines :
       /\ Attempted(e)
          => /\ pc[e] \in {"PrepProbe", "SendTry"}
             /\ session'.cand = Len(tried[e]) + 1
             /\ session'.cand <= Len(loc[e].mxs)
             /\ session'.addr = <<loc[e].mxs[session'.cand]>> \o Port25
             /\ \A i \in 1..Len(tried[e]) : tried[e][i] # Nil
             /\ session'.err = Nil => pc'[e] \in {"PrepAfter", "SendAfter"}
       /\ (pc[e] \in {"PrepAfter", "SendAfter"} /\ pc'[e] # pc[e]
             /\ tried[e] # <<>> /\ tried[e][Len(tried[e])] = Nil)
          => (pc'[e] \in {"PrepRange", "SendRange"} /\ ret'[e] = Nil)]_vars

\* the first candidate failed, the second took the message, the loop is over
C5_Witness ==
  \E e \in Engines :
    /\ pc[e] = "SendAfter" /\ Len(loc[e].mxs) = 2
    /\ Len(tried[e]) = 2 /\ tried[e][1] # Nil /\ tried[e][2] = Nil

\* the planner's error inside what Init or Run returned
PlanErr(r) == IF r.kind = "run" THEN r.err ELSE r

\* the step made the planner of e give up a group
GroupGivenUp(e) ==
  /\ ret[e] = Nil /\ PlanErr(ret'[e]).kind \in {"test", "send"}
  /\ tried[e] # <<>>

\* C6 (as claimed): when every candidate of a group failed, the planner's
\* error holds the error of each failed candidate and the candidate list.
C6_EveryCandidateErrorReported ==
  [][\A e \in Engines :
       GroupGivenUp(e)
       => /\ \A i \in 1..Len(tried[e]) : tried[e][i] = PlanErr(ret'[e]).err
          /\ PlanErr(ret'[e]).mxs = loc[e].mxs]_vars

\* C6 (amended): when every candidate of a group failed, the planner's error
\* holds the error of the last candidate and the full candidate list, all of
\* whose hosts were tried and failed.
C6_LastCandidateErrorReported ==
  [][\A e \in Engines :
       GroupGivenUp(e)
       => /\ PlanErr(ret'[e]).err = tried[e][Len(tried[e])]
          /\ PlanErr(ret'[e]).err # Nil
          /\ PlanErr(ret'[e]).mxs = loc[e].mxs
          /\ PlanErr(ret'[e]).tos = loc[e].tos
          /\ Len(tried[e]) = Len(loc[e].mxs)
          /\ \A i \in 1..Len(tried[e]) : tried[e][i] # Nil]_vars

\* Init returned the error of a group whose two candidates both failed
C6_Witness ==
  \E e \in Engines :
    /\ pc[e] = "Stopped" /\ ret[e].kind = "test"
    /\ Len(ret[e].mxs) = 2 /\ ret[e].err # Nil

\* the session wrote the whole body and closed the data phase without error
BodySent(s) ==
  /\ \E i \in 1..Len(s.steps) : s.steps[i].op = "close"
  /\ ErrOp(s.err) # "close"

\* C7: a session that transmitted the body and closed the data phase counts
\* as a success for the planner, whatever quit answers: the candidate loop
\* is over without an error and Run has not returned one.
C7_QuitFailureKeepsSuccess ==
  (session.kind = "session" /\ BodySent(session))
  => /\ pc[session.eng] \in {"SendAfter", "Run"}
     /\ loc[session.eng].err = Nil
     /\ ret[session.eng] = Nil

\* the session got past sender and recipients
EnvelopeAccepted(s) ==
  ErrOp(s.err) \in {"none", "data", "write", "close", "quit"}

DataOps == {"data", "write", "close"}

\* C8: a probe session has no body and runs no data step; a session of the
\* main loop has a body and opens the data phase once the envelope is in.
C8_ProbeSendsNoData ==
  session.kind = "session"
  => /\ session.phase = "probe"
        => /\ session.msg.nil
           /\ \A i \in 1..Len(session.steps) : session.steps[i].op \notin DataOps
     /\ (session.phase = "send" /\ EnvelopeAccepted(session))
        => /\ ~session.msg.nil
           /\ \E i \in 1..Len(session.steps) : session.steps[i].op = "data"

\* a probe in which TLS, authentication and every other step succeeded
C8_Witness ==
  /\ session.kind = "session" /\ session.phase = "probe" /\ session.err = Nil
  /\ \E i \in 1..Len(session.steps) : session.steps[i].op = "starttls"
  /\ \E i \in 1..Len(session.steps) : session.steps[i].op = "auth"
  /\ session.steps[Len(session.steps)].op = "quit"

\* the groups the startup probe has to prove
Groups(e) ==
  IF o[e].hostport = <<>> THEN DOMAIN GroupByHost(o[e].To, 1, EmptyMap) ELSE {<<>>}

\* C9: an engine is in its main loop, has taken a record or has sent a body
\* only if the probe of every group succeeded; an engine whose Init returned
\* an error is stopped and has taken no record.
C9_RunOnlyAfterProbe ==
  \A e \in Engines :
    /\ (pc[e] \in RunPcs \/ taken[e] > 0 \/ ~body[e].nil
          \/ (session.kind = "session" /\ session.eng = e /\ session.phase = "send"))
       => (probed[e] = Groups(e) /\ ret[e].kind \in {"nil", "run"})
    /\ ret[e].kind \in {"lookup", "test", "smtp"}
       => (pc[e] = "Stopped" /\ taken[e] = 0 /\ body[e].nil)

\* Init returned the error of a failed group probe after another group passed
C9_Witness ==
  \E e \in Engines :
    /\ pc[e] = "Stopped" /\ ret[e].kind = "test" /\ probed[e] # {}

\* the step ended a delivery of e with an error
DeliveryFailed(e) ==
  \/ pc[e] = "SendAfter" /\ pc'[e] # "SendAfter" /\ loc[e].err # Nil
  \/ /\ pc[e] = "SendFixed" /\ session'.kind = "session" /\ session'.eng = e
     /\ session'.err # Nil

\* C10: a record is taken only while no other is being delivered; a failed
\* delivery makes Run return the error; and once Run has returned an error
\* the engine takes no record and starts no session.
C10_FailedDeliveryStopsRun ==
  [][\A e \in Engines :
       /\ taken'[e] # taken[e]
          => (pc[e] = "Run" /\ body[e].nil /\ taken'[e] = taken[e] + 1)
       /\ DeliveryFailed(e)
          => (pc'[e] = "Stopped" /\ ret'[e].kind = "run")
       /\ ret[e].kind = "run"
          => /\ pc[e] = "Stopped" /\ pc'[e] = "Stopped"
             /\ taken'[e] = taken[e]
             /\ ~(session'.kind = "session" /\ session'.eng = e)]_vars

\* Run returned an error with records still to come
C10_Witness ==
  \E e \in Engines :
    /\ pc[e] = "Stopped" /\ ret[e].kind = "run" /\ taken[e] = 1

\* C11: per-domain mode: o.sendMail returns nil only when a session succeeded
\* for every group; a session is only started while every group visited
\* before has succeeded; and a group whose candidates all failed ends the
\* delivery with that group's error, whatever was delivered before.
C11_AllGroupsOrFailFast ==
  [][\A e \in Engines :
       /\ (pc[e] = "SendRange" /\ pc'[e] = "Run")
          => delivered[e] = DOMAIN o[e].byHost
       /\ (Attempted(e) /\ session'.phase = "send")
          => ((DOMAIN o[e].byHost \ todo[e]) \ {loc[e].host}) \subseteq delivered[e]
       /\ (pc[e] = "SendAfter" /\ pc'[e] # "SendAfter" /\ loc[e].err # Nil)
          => /\ pc'[e] = "Stopped"
             /\ PlanErr(ret'[e]).kind = "send"
             /\ PlanErr(ret'[e]).tos = loc[e].tos
             /\ PlanErr(ret'[e]).err = loc[e].err]_vars

\* a group has failed after another group of the same delivery got the message
C11_Witness ==
  \E e \in Engines :
    /\ pc[e] = "SendAfter" /\ loc[e].err # Nil
    /\ delivered[e] # {} /\ loc[e].host \notin delivered[e]

\* the domain of a well-formed address: what follows its "@"
DomainOf(a) == <<a[Len(a)]>>

\* the addresses of to at domain h, in the order of to
AtDomain(to, h) ==
  LET Here(a) == DomainOf(a) = h
  IN  SelectSeq(to, Here)

\* C12: per-domain mode: byHost has exactly the domains of the destination
\* set as keys, each group is the destination set restricted to its domain
\* (order kept, never empty), and no address is in two groups.
C12_GroupingPartitions ==
  \A e \in Engines :
    (pc[e] # "Uninit" /\ o[e].hostport = <<>>)
    => LET bh == o[e].byHost
           to == o[e].To
       IN  /\ DOMAIN bh = {DomainOf(to[i]) : i \in 1..Len(to)}
           /\ \A h \in DOMAIN bh : bh[h] # <<>> /\ bh[h] = AtDomain(to, h)
           /\ \A h \in DOMAIN bh, g \in DOMAIN bh, i \in 1..Len(to) :
                (\E j \in 1..Len(bh[h]) : bh[h][j] = to[i])
                /\ (\E j \in 1..Len(bh[g]) : bh[g][j] = to[i])
                => h = g

\* {a@x.com, b@y.com, c@x.com}: the range loop is at x.com -> [a, c]
C12_Witness ==
  /\ pc["e1"] = "PrepLock"
  /\ o["e1"].To = <<AddrAX, AddrBY, AddrCX>>
  /\ DOMAIN o["e1"].byHost = {<<"x.com">>, <<"y.com">>}
  /\ loc["e1"].host = <<"x.com">> /\ loc["e1"].tos = <<AddrAX, AddrCX>>
  /\ o["e1"].byHost[<<"y.com">>] = <<AddrBY>>

\* C13: every entry of the MX cache is a non-empty candidate list.
C13_NoEmptyCacheEntry ==
  \A d \in DOMAIN mxAddrs : mxAddrs[d] # <<>>

\* the position of a step in the order of a session
Rank(op) ==
  CASE op = "dial" -> 1 [] op = "greeting" -> 2 [] op = "hello" -> 3
    [] op = "starttls" -> 4 [] op = "auth" -> 5 [] op = "mail" -> 6
    [] op = "rcpt" -> 7 [] op = "data" -> 8 [] op = "write" -> 9
    [] op = "close" -> 10 [] op = "quit" -> 11

HasOp(s, op) == \E i \in 1..Len(s.steps) : s.steps[i].op = op

\* the recipients a session declared, in the order it declared them
Declared(s) ==
  LET IsRcpt(st) == st.op = "rcpt"
      r == SelectSeq(s.steps, IsRcpt)
  IN  [k \in 1..Len(r) |-> r[k].arg]

\* C14: the steps of a session follow the order connect, greeting, hello,
\* TLS, authentication, sender, recipients in list order, data, quit, each
\* done once at most and none left out before a later one; the step the
\* server fails is the last step and its failure the result.
C14_SessionStepOrder ==
  session.kind = "session"
  => LET st   == session.steps
         last == st[Len(st)]
     IN  /\ st[1].op = "dial"
         /\ \A i \in 1..(Len(st) - 1) :
              \/ Rank(st[i].op) < Rank(st[i + 1].op)
              \/ st[i].op = "rcpt" /\ st[i + 1].op = "rcpt"
         /\ Declared(session) = SubSeq(session.to, 1, Len(Declared(session)))
         /\ \A op \in {"greeting", "hello", "mail"} :
              Rank(last.op) > Rank(op) => HasOp(session, op)
         /\ Rank(last.op) > Rank("rcpt") => Declared(session) = session.to
         /\ (last.op = "quit" /\ ~session.msg.nil)
            => \A op \in DataOps : HasOp(session, op)
         /\ \A i \in 1..(Len(st) - 1) : st[i] # session.srv.fail
         /\ IF last = session.srv.fail
            THEN session.err = [kind |-> "smtp", op |-> last.op, arg |-> last.arg]
            ELSE session.err = Nil /\ last.op = "quit"

\* the first of two recipients was rejected and the second never declared
C14_Witness ==
  /\ session.kind = "session" /\ Len(session.to) = 2
  /\ ErrOp(session.err) = "rcpt" /\ session.err.arg = session.to[1]
  /\ Declared(session) = <<session.to[1]>>
  /\ ~HasOp(session, "quit")

\* the session got as far as the authentication step
PastTLS(s) == ErrOp(s.err) \notin {"dial", "greeting", "hello", "starttls"}

\* C15: a session authenticates exactly when it was given credentials and
\* the server offers AUTH; with credentials and no AUTH offered it goes on
\* to the sender step; credentials are only handed to sessions of an engine
\* with an address and a username, so none authenticates in per-domain mode.
C15_AuthOnlyWhenOffered ==
  session.kind = "session"
  => LET cfg == config[session.eng]
     IN  /\ session.auth # NoAuth <=> (cfg.Address # <<>> /\ cfg.Username # "")
         /\ HasOp(session, "auth")
            <=> (session.auth # NoAuth /\ session.srv.auth /\ PastTLS(session))
         /\ (session.auth # NoAuth /\ ~session.srv.auth /\ PastTLS(session))
            => HasOp(session, "mail")
         /\ cfg.Address = <<>> => ~HasOp(session, "auth")

\* per-domain mode with a username: the server offers AUTH, the session
\* succeeds without authenticating
C15_Witness ==
  /\ session.kind = "session" /\ session.err = Nil /\ session.srv.auth
  /\ config[session.eng].Address = <<>>
  /\ config[session.eng].Username # ""

\* the address a fixed-relay engine has to connect to
RelayAddr(cfg) ==
  IF \E i \in 1..Len(cfg.Address) : cfg.Address[i] = ":"
  THEN cfg.Address ELSE cfg.Address \o <<":", "25">>

\* C16: an engine is in fixed-relay mode exactly when its address is not
\* empty, and stays in its mode; in that mode it resolves nothing, and each
\* probe or delivery is one session with the configured host and port (port
\* 25 when none was given) for the whole destination set.
C16_FixedRelay ==
  [][\A e \in Engines :
       /\ pc[e] # "Uninit"
          => (o'[e].hostport = o[e].hostport /\ config'[e] = config[e])
       /\ pc'[e] # "Uninit"
          => /\ o'[e].hostport = <<>> <=> config'[e].Address = <<>>
             /\ config'[e].Address # <<>>
                => /\ o'[e].hostport = RelayAddr(config'[e])
                   /\ pc'[e] \in {"PrepFixed", "Run", "SendFixed", "Stopped"}
       /\ (session'.kind = "session" /\ session'.eng = e)
          => IF config[e].Address # <<>>
             THEN /\ session'.addr = RelayAddr(config[e])
                  /\ session'.to = config[e].To
                  /\ session'.cand = 0
                  /\ pc[e] \in {"PrepFixed", "SendFixed"}
                  /\ pc'[e] \in {"Run", "Stopped"}
             ELSE session'.cand > 0]_vars

\* a delivery through the relay configured without a port
C16_Witness ==
  /\ session.kind = "session" /\ session.phase = "send"
  /\ config[session.eng].Address = <<"relay">>
  /\ session.addr = <<"relay", ":", "25">>

\* engine e is about to read or write the cache
AtCache(e) == pc[e] \in {"PrepCheck", "PrepLookup", "SendRead"}

\* C17: the cache only changes in a step of the lock holder; an engine about
\* to read or write the cache holds the lock; two engines are never both
\* between Lock() and Unlock(); and between a miss and its store no other
\* engine takes a step that reads or writes the cache.
C17_CacheUnderLock ==
  [][/\ mxAddrs' # mxAddrs
        => \E e \in Engines :
             mxAddrsLock = e /\ pc[e] = "PrepLookup" /\ pc'[e] # pc[e]
     /\ \A e \in Engines : AtCache(e) => mxAddrsLock = e
     /\ \A e \in Engines, f \in Engines :
          /\ (e # f /\ pc[e] \in CriticalPcs) => pc[f] \notin CriticalPcs
          /\ (e # f /\ pc[e] = "PrepLookup" /\ pc'[f] # pc[f]) => ~AtCache(f)]_vars

\* one engine is between its miss and its store while the other wants the lock
C17_Witness ==
  \E e \in Engines, f \in Engines :
    /\ e # f /\ pc[e] = "PrepLookup" /\ mxAddrsLock = e
    /\ pc[f] \in {"PrepLock", "SendLock"}

\* C18: for one record and one group, at most one candidate got the whole
\* body (its session succeeded, or failed no earlier than quit).
C18_BodySentToOneCandidate ==
  \A e \in Engines :
    pc[e] \in {"SendTry", "SendAfter"}
    => Cardinality({i \in 1..Len(tried[e]) :
                      ErrOp(tried[e][i]) \in {"none", "quit"}}) <= 1

\* C19: a running engine reads a non-empty candidate list for each of its
\* groups, leaves no group without a session, and every group its delivery
\* has passed had a session that succeeded.
C19_NoGroupSkipped ==
  \A e \in Engines :
    /\ pc[e] \in {"SendTry", "SendAfter"}
       => /\ loc[e].host \in DOMAIN mxAddrs
          /\ loc[e].mxs # <<>>
          /\ loc[e].mxs = mxAddrs[loc[e].host]
    /\ pc[e] = "SendAfter"
       => /\ tried[e] # <<>>
          /\ loc[e].err = Nil => loc[e].host \in delivered[e]
    /\ pc[e] = "SendRange" => delivered[e] = DOMAIN o[e].byHost \ todo[e]

\* a delivery about to report success after both groups took the message
C19_Witness ==
  \E e \in Engines :
    /\ pc[e] = "SendRange" /\ todo[e] = {}
    /\ Cardinality(delivered[e]) = 2

\* C20: a session has closed its connection when it returns.
C20_ConnectionClosed ==
  session.kind = "session" => ~session.connOpen

====
